---- MODULE Spec2Model ----
(***************************************************************************)
(* A model of the IndexedDB storage adapter of kinto.js                    *)
(* (src/adapters/IDB.js): the connection lifecycle, the metadata store,    *)
(* the cursor query engine and the transaction executor, together with the *)
(* part of the IndexedDB engine the adapter relies on (object stores,      *)
(* indexes, cursors, transactions and their events).                       *)
(*                                                                         *)
(* Strings are sequences of UTF-16 code units; JavaScript values that are  *)
(* not records are tagged triples [t, n, s].                               *)
(***************************************************************************)
EXTENDS Integers, Sequences, FiniteSets, TLC

\* ------------------------------------------------------------------------
\* Bounds of the model
\* ------------------------------------------------------------------------

\* Number of client operations that may be in flight at the same time.
NProc == 2
\* Number of public operations the clients start in one behaviour.
MaxOps == 2
\* Longest list of values of an "IN" filter or of a preload list.
MaxVals == 2

Procs == 1..NProc

\* ------------------------------------------------------------------------
\* JavaScript values
\* ------------------------------------------------------------------------

Num(n) == [t |-> "number", n |-> n, s |-> <<>>]
Str(s) == [t |-> "string", n |-> 0, s |-> s]
Undefined == [t |-> "undefined", n |-> 0, s |-> <<>>]
Null == [t |-> "null", n |-> 0, s |-> <<>>]
NaN == [t |-> "NaN", n |-> 0, s |-> <<>>]
NegInfinity == [t |-> "-Infinity", n |-> 0, s |-> <<>>]
\* A pending Promise object (only its being a Promise matters).
PromiseVal == [t |-> "promise", n |-> 0, s |-> <<>>]

\* Code units used by the model.
Minus == 45
Digit0 == 48

DigitChar(d) == Digit0 + d
IsDigit(c) == c >= Digit0 /\ c <= Digit0 + 9

\* The decimal digits of a natural number, most significant first.
RECURSIVE NatToString(_)
NatToString(n) ==
  IF n < 10 THEN <<DigitChar(n)>>
  ELSE Append(NatToString(n \div 10), DigitChar(n % 10))

\* Number.prototype.toString for an integer.
IntToString(n) == IF n < 0 THEN <<Minus>> \o NatToString(-n) ELSE NatToString(n)

\* ToString of a JavaScript value.
JsToString(v) ==
  CASE v.t = "number" -> IntToString(v.n)
    [] v.t = "string" -> v.s
    [] v.t = "null" -> <<110, 117, 108, 108>>
    [] v.t = "undefined" -> <<117, 110, 100, 101, 102, 105, 110, 101, 100>>
    [] v.t = "-Infinity" -> <<Minus, 73, 110, 102, 105, 110, 105, 116, 121>>
    [] OTHER -> <<78, 97, 78>>

\* The value of the longest prefix of decimal digits of s, read after acc.
RECURSIVE DigitsValue(_, _)
DigitsValue(s, acc) ==
  IF s = <<>> \/ ~IsDigit(Head(s)) THEN acc
  ELSE DigitsValue(Tail(s), acc * 10 + (Head(s) - Digit0))

\* parseInt(v, 10): the string form of v, an optional sign, then digits;
\* NaN when no digit follows.
ParseInt(v) ==
  LET str == JsToString(v)
      neg == str # <<>> /\ Head(str) = Minus
      body == IF neg THEN Tail(str) ELSE str
  IN IF body = <<>> \/ ~IsDigit(Head(body)) THEN NaN
     ELSE Num(IF neg THEN -DigitsValue(body, 0) ELSE DigitsValue(body, 0))

\* ToBoolean.
Truthy(v) ==
  CASE v.t = "number" -> v.n # 0
    [] v.t = "string" -> v.s # <<>>
    [] v.t = "promise" -> TRUE
    [] v.t = "-Infinity" -> TRUE
    [] OTHER -> FALSE

\* a || b
JsOr(a, b) == IF Truthy(a) THEN a ELSE b

\* Whether every code unit of s is a decimal digit.
AllDigits(s) == \A k \in 1..Len(s) : IsDigit(s[k])

\* ToNumber: a string converts when all of it is an integer literal.
ToNumber(v) ==
  CASE v.t = "number" -> v
    [] v.t = "null" -> Num(0)
    [] v.t = "-Infinity" -> NegInfinity
    [] v.t = "string" ->
         LET body == IF v.s # <<>> /\ Head(v.s) = Minus THEN Tail(v.s) ELSE v.s
         IN IF v.s = <<>> THEN Num(0)
            ELSE IF body # <<>> /\ AllDigits(body) THEN ParseInt(v)
            ELSE NaN
    [] OTHER -> NaN

\* a > b on numbers (false when either side is NaN).
NumGreater(x, y) ==
  CASE x.t = "NaN" \/ y.t = "NaN" -> FALSE
    [] x.t = "-Infinity" -> FALSE
    [] y.t = "-Infinity" -> TRUE
    [] OTHER -> x.n > y.n

\* Math.max(...vs) for a sequence of values.
RECURSIVE MathMax(_)
MathMax(vs) ==
  IF vs = <<>> THEN NegInfinity
  ELSE LET x == ToNumber(Head(vs))
           m == MathMax(Tail(vs))
       IN CASE x.t = "NaN" \/ m.t = "NaN" -> NaN
            [] m.t = "-Infinity" -> x
            [] x.t = "-Infinity" -> m
            [] OTHER -> IF x.n > m.n THEN x ELSE m

\* Strict order of two strings by code units (the order of the < operator
\* on strings, of Array.prototype.sort without a comparator, and of
\* IndexedDB string keys).
RECURSIVE StrLess(_, _)
StrLess(a, b) ==
  CASE b = <<>> -> FALSE
    [] a = <<>> -> TRUE
    [] Head(a) # Head(b) -> Head(a) < Head(b)
    [] OTHER -> StrLess(Tail(a), Tail(b))

\* a > b: two strings compare by code units, anything else as numbers.
JsGreater(a, b) ==
  IF a.t = "string" /\ b.t = "string" THEN StrLess(b.s, a.s)
  ELSE NumGreater(ToNumber(a), ToNumber(b))

\* a === b
StrictEquals(a, b) == a.t # "NaN" /\ a = b

\* ------------------------------------------------------------------------
\* Records, object stores, indexes and cursors
\* ------------------------------------------------------------------------

\* The fields the collection store is indexed on.
INDEXED_FIELDS == <<"id", "_status", "last_modified">>

\* The value of field f of record r (undefined for a field it has not).
FieldOf(r, f) ==
  CASE f = "id" -> r.id
    [] f = "_status" -> r._status
    [] f = "last_modified" -> r.last_modified
    [] OTHER -> Undefined

\* Record ids are strings: "1", "10", "2" and "9".
Id1 == Str(<<49>>)
Id10 == Str(<<49, 48>>)
Id2 == Str(<<50>>)
Id9 == Str(<<57>>)

\* The record statuses used: "created" and "synced".
Created == Str(<<99, 114, 101, 97, 116, 101, 100>>)
Synced == Str(<<115, 121, 110, 99, 101, 100>>)

Rec(id, status, lm) == [id |-> id, _status |-> status, last_modified |-> lm]

\* A value IndexedDB accepts as a key.
ValidKey(v) == v.t \in {"number", "string"}

\* The order of IndexedDB keys: numbers before strings, numbers by value,
\* strings by code units.
KeyLess(a, b) ==
  CASE a.t = "number" /\ b.t = "number" -> a.n < b.n
    [] a.t = "string" /\ b.t = "string" -> StrLess(a.s, b.s)
    [] OTHER -> a.t = "number" /\ b.t = "string"

\* The order of the entries of the index on field f: by key, then by
\* primary key.
EntryLess(f, a, b) ==
  \/ KeyLess(FieldOf(a, f), FieldOf(b, f))
  \/ FieldOf(a, f) = FieldOf(b, f) /\ KeyLess(a.id, b.id)

\* The records of S in the order of the index on f.
RECURSIVE SortedBy(_, _)
SortedBy(S, f) ==
  IF S = {} THEN <<>>
  ELSE LET first == CHOOSE r \in S : \A q \in S \ {r} : EntryLess(f, r, q)
       IN <<first>> \o SortedBy(S \ {first}, f)

\* store.index(f).openCursor(): the records that have a key for f.
IndexCursor(store, f) == SortedBy({r \in store : ValidKey(FieldOf(r, f))}, f)

\* store.index(f).openCursor(IDBKeyRange.only(v))
IndexOnlyCursor(store, f, v) == SortedBy({r \in store : FieldOf(r, f) = v}, f)

\* store.openCursor(): every record, by primary key.
StoreCursor(store) == SortedBy(store, "id")

\* store.get(id): the record, if any (a set of at most one record).
StoreGet(store, id) == {r \in store : r.id = id}

\* store.put(record)
StorePut(store, r) == {q \in store : q.id # r.id} \cup {r}

\* StoreClear left out.
StoreClearNone(store) == store

\* store.clear()
StoreClear(store) == {}

\* store.delete(id)
StoreDelete(store, id) == {q \in store : q.id # id}

\* Array.prototype.sort() without a comparator: ascending by the string
\* form of the values, equal elements keeping their order.
RECURSIVE SortInsert(_, _)
SortInsert(x, sorted) ==
  IF sorted = <<>> THEN <<x>>
  ELSE IF StrLess(JsToString(x), JsToString(Head(sorted)))
       THEN <<x>> \o sorted
  ELSE <<Head(sorted)>> \o SortInsert(x, Tail(sorted))

\* JsSort left out: the values as given.
JsSortNone(values) == values

RECURSIVE JsSort(_)
JsSort(values) ==
  IF values = <<>> THEN <<>>
  ELSE SortInsert(values[Len(values)], JsSort(SubSeq(values, 1, Len(values) - 1)))

\* A cursor request in flight: the entries it iterates, its position (past
\* the end when the cursor is null), the results its handler collected,
\* whether the handler called done and whether it threw.
NewCursor(src) ==
  [src |-> src, pos |-> 1, results |-> <<>>, done |-> FALSE, threw |-> FALSE]

NoCursor == NewCursor(<<>>)

\* cursor.continue()
Continue(c) == [c EXCEPT !.pos = c.pos + 1]

\* cursor.continue(key): the next entry whose key is not below key; a
\* DataError is thrown when key is not above the cursor's own key.
ContinueTo(c, f, key) ==
  IF ~KeyLess(FieldOf(c.src[c.pos], f), key) THEN [c EXCEPT !.threw = TRUE]
  ELSE LET later == {k \in (c.pos + 1)..Len(c.src) :
                       ~KeyLess(FieldOf(c.src[k], f), key)}
       IN [c EXCEPT !.pos = IF later = {} THEN Len(c.src) + 1
                              ELSE CHOOSE k \in later : \A j \in later : k <= j]

\* cursorHandlers.all: one success event.
AllHandler(c) ==
  IF c.pos <= Len(c.src)
  THEN Continue([c EXCEPT !.results = Append(c.results, c.src[c.pos])])
  ELSE [c EXCEPT !.done = TRUE]

\* SkipPassed with the while loop left out.
SkipPassedNone(key, sortedValues, i) == i

\* The while loop of cursorHandlers.in: the first index from i on whose
\* value the key does not exceed; Len + 1 when the values run out. An
\* index past the end of an empty list reads undefined, which no key
\* exceeds.
RECURSIVE SkipPassed(_, _, _)
SkipPassed(key, sortedValues, i) ==
  IF i > Len(sortedValues) THEN i
  ELSE IF JsGreater(key, sortedValues[i]) THEN SkipPassed(key, sortedValues, i + 1)
  ELSE i

\* InHandler replaced by the handler that collects every record.
InHandlerAll(c, f, sortedValues) == AllHandler(c)

\* cursorHandlers.in: one success event.
InHandler(c, f, sortedValues) ==
  IF c.pos > Len(c.src) THEN [c EXCEPT !.done = TRUE]
  ELSE LET key == FieldOf(c.src[c.pos], f)
           i == SkipPassed(key, sortedValues, 1)
       IN IF sortedValues # <<>> /\ i > Len(sortedValues)
          THEN [c EXCEPT !.done = TRUE]
          ELSE IF sortedValues = <<>> THEN Continue(c)
          ELSE IF StrictEquals(key, sortedValues[i])
               THEN Continue([c EXCEPT !.results = Append(c.results, c.src[c.pos])])
          ELSE ContinueTo(c, f, sortedValues[i])

\* ------------------------------------------------------------------------
\* The adapter and the engine: state
\* ------------------------------------------------------------------------

VARIABLES
  _db,      \* the adapter's cached handle: 0 (null) or an index into handles
  handles,  \* the database handles opened so far: "open" or "closed"
  coll,     \* the committed content of the collection store: a set of records
  meta,     \* the value of the "lastModified" metadata entry, Undefined when
            \* the entry does not exist
  txq,      \* the live transactions, in the order they were created
  pc,       \* where each client operation stands
  call,     \* the public operation each client called, with its arguments
  method,   \* the adapter method each client is running
  val,      \* saveLastModified's value, execute's result
  reqs,     \* the requests the batch queued on the store
  cur,      \* the cursor request in flight
  reads,    \* what the proxy's get returned to the batch, in call order
  out,      \* the promise the public operation returned
  pre,      \* the committed content when the operation was called
  left      \* the number of operations the clients may still start

vars == <<_db, handles, coll, meta, txq, pc, call, method, val, reqs, cur,
          reads, out, pre, left>>

\* A promise: pending, or settled once with a value or an error.
Pending ==
  [state |-> "pending", val |-> Undefined, recs |-> <<>>, err |-> "", prefix |-> ""]

NoPromise == [Pending EXCEPT !.state = "none"]

\* resolve(val): no effect on a settled promise.
Resolved(o, v, recs) ==
  IF o.state # "pending" THEN o
  ELSE [o EXCEPT !.state = "resolved", !.val = v, !.recs = recs]

\* reject(err): no effect on a settled promise.
Rejected(o, err, prefix) ==
  IF o.state # "pending" THEN o
  ELSE [o EXCEPT !.state = "rejected", !.err = err, !.prefix = prefix]

\* The name _handleError prefixes to the errors of a method: clear, get,
\* list and loadDump end with .catch(this._handleError(name)).
HandleErrorPrefix(name) ==
  IF name \in {"clear", "get", "list", "loadDump"} THEN name ELSE ""

\* A batch: the proxy calls it makes, how it ends ("return", "throw" or
\* "promise") and the value it returns.
NoBatch == [ops |-> <<>>, end |-> "return", ret |-> Undefined]

\* The arguments of a call, with the defaults of the missing ones.
NoCall ==
  [name |-> "none", id |-> Undefined, filters |-> <<>>, batch |-> NoBatch,
   preload |-> <<>>, arg |-> Undefined, records |-> <<>>]

\* One filter: a field with a scalar value, or (arr) with a list of values.
Filter(field, v) == [field |-> field, arr |-> FALSE, value |-> v, values |-> <<>>]
FilterIn(field, vs) == [field |-> field, arr |-> TRUE, value |-> Undefined, values |-> vs]

\* The transaction each method prepares: its store and its mode.
TxStore(m) == IF m \in {"saveLastModified", "getLastModified"} THEN "__meta__" ELSE "coll"
TxMode(m) == IF m \in {"clear", "execute", "saveLastModified"} THEN "readwrite" ELSE "readonly"

\* The position of p's transaction in txq (0 when it has none).
TxIndex(p) ==
  IF \E k \in 1..Len(txq) : txq[k].p = p
  THEN CHOOSE k \in 1..Len(txq) : txq[k].p = p
  ELSE 0

\* Runnable without the engine's ordering of transactions.
RunnableAlone(p) == TxIndex(p) > 0

\* The engine runs a transaction once no transaction created before it on
\* the same store is live, read-only transactions excepted among themselves.
Runnable(p) ==
  LET k == TxIndex(p)
  IN /\ k > 0
     /\ \A j \in 1..(k - 1) :
          \/ txq[j].store # txq[k].store
          \/ txq[j].mode = "readonly" /\ txq[k].mode = "readonly"

\* txq without p's transaction.
RECURSIVE Without(_, _)
Without(q, p) ==
  IF q = <<>> THEN <<>>
  ELSE IF Head(q).p = p THEN Tail(q)
  ELSE <<Head(q)>> \o Without(Tail(q), p)

\* findIndexedField: the first field of the filters, in the order of the
\* filters' keys, that is indexed; "" (undefined) when there is none.
IsIndexed(field) == \E k \in 1..Len(INDEXED_FIELDS) : INDEXED_FIELDS[k] = field

\* findIndexedField choosing by the order of INDEXED_FIELDS instead.
findIndexedFieldByPriority(filters) ==
  LET held == {k \in 1..Len(INDEXED_FIELDS) :
                 \E j \in 1..Len(filters) : filters[j].field = INDEXED_FIELDS[k]}
  IN IF held = {} THEN ""
     ELSE INDEXED_FIELDS[CHOOSE k \in held : \A j \in held : k <= j]

RECURSIVE findIndexedField(_)
findIndexedField(filters) ==
  IF filters = <<>> THEN ""
  ELSE IF IsIndexed(Head(filters).field) THEN Head(filters).field
  ELSE findIndexedField(Tail(filters))

\* filters[field], for a field the filters hold.
FilterFor(filters, field) ==
  filters[CHOOSE k \in 1..Len(filters) : filters[k].field = field]

\* delete remainingFilters[indexField]
RECURSIVE RemoveFilter(_, _)
RemoveFilter(filters, field) ==
  IF filters = <<>> THEN <<>>
  ELSE IF Head(filters).field = field THEN RemoveFilter(Tail(filters), field)
  ELSE <<Head(filters)>> \o RemoveFilter(Tail(filters), field)

\* Whether record r passes every filter.
Matches(r, filters) ==
  \A k \in 1..Len(filters) :
    LET fl == filters[k]
    IN IF fl.arr
       THEN \E j \in 1..Len(fl.values) : StrictEquals(FieldOf(r, fl.field), fl.values[j])
       ELSE StrictEquals(FieldOf(r, fl.field), fl.value)

\* reduceRecords(filters, undefined, records): the records that pass the
\* filters, in their order.
RECURSIVE reduceRecords(_, _)
reduceRecords(filters, records) ==
  IF records = <<>> THEN <<>>
  ELSE IF Matches(Head(records), filters)
       THEN <<Head(records)>> \o reduceRecords(filters, Tail(records))
  ELSE reduceRecords(filters, Tail(records))

\* createListRequest without the key range of the equality case.
createListRequestNoRange(store, filters) ==
  LET indexField == findIndexedField(filters)
  IN IF indexField = "" THEN NewCursor(StoreCursor(store))
     ELSE NewCursor(IndexCursor(store, indexField))

\* createListRequest: the cursor that list opens for its filters.
createListRequest(store, filters) ==
  LET indexField == findIndexedField(filters)
  IN IF indexField = "" THEN NewCursor(StoreCursor(store))
     ELSE IF FilterFor(filters, indexField).arr
          THEN NewCursor(IndexCursor(store, indexField))
     ELSE NewCursor(IndexOnlyCursor(store, indexField, FilterFor(filters, indexField).value))

\* The handler createListRequest attaches: one success event.
ListHandler(c, filters) ==
  LET indexField == findIndexedField(filters)
  IN IF indexField # "" /\ FilterFor(filters, indexField).arr
     THEN InHandler(c, indexField, JsSort(FilterFor(filters, indexField).values))
     ELSE AllHandler(c)

\* The elements of a sequence.
Range(s) == {s[k] : k \in 1..Len(s)}

\* A set of at most one record as the sequence of its elements.
AsSeq(S) == IF S = {} THEN <<>> ELSE <<CHOOSE r \in S : TRUE>>

\* ------------------------------------------------------------------------
\* The transaction executor's batch
\* ------------------------------------------------------------------------

\* One call of the batch on the proxy: "create", "update", "delete" or "get"
\* (delete and get read only the id of r); "bump" stands for a get of the
\* id of r followed by an update with a record derived from what it got.
ProxyCall(k, r) == [k |-> k, r |-> r]

\* transactionProxy.get: the preloaded record of that id, if any.
ProxyGet(preloaded, id) == {r \in Range(preloaded) : r.id = id}

\* transactionProxy.create, update and delete: the request each queues on
\* the store (add, put, delete).
ProxyRequest(c) ==
  [k |-> CASE c.k = "create" -> "add"
           [] c.k = "update" -> "put"
           [] OTHER -> "delete",
   r |-> c.r]

\* The record a batch derives from what get returned for an id: the same
\* record with last_modified one higher, a new record with last_modified 1
\* when get returned nothing.
Bump(found, id) ==
  IF found = {} THEN Rec(id, Created, Num(1))
  ELSE LET r == CHOOSE x \in found : TRUE
       IN Rec(id, r._status,
              IF r.last_modified.t = "number" THEN Num(r.last_modified.n + 1) ELSE Num(1))

\* RunBatch with the proxy's update and delete changing what a later get
\* of the batch returns.
RECURSIVE RunBatchLive(_, _)
RunBatchLive(ops, preloaded) ==
  IF ops = <<>> THEN [reqs |-> <<>>, reads |-> <<>>]
  ELSE LET c == Head(ops)
           others == SelectSeq(preloaded, LAMBDA r : r.id # c.r.id)
           seen == CASE c.k = "update" -> Append(others, c.r)
                     [] c.k = "delete" -> others
                     [] OTHER -> preloaded
           rest == RunBatchLive(Tail(ops), seen)
       IN IF c.k = "get"
          THEN [rest EXCEPT !.reads = <<ProxyGet(preloaded, c.r.id)>> \o rest.reads]
          ELSE [rest EXCEPT !.reqs = <<ProxyRequest(c)>> \o rest.reqs]

\* callback(proxy): the requests the batch queues and what its gets return.
RECURSIVE RunBatch(_, _)
RunBatch(ops, preloaded) ==
  IF ops = <<>> THEN [reqs |-> <<>>, reads |-> <<>>]
  ELSE LET rest == RunBatch(Tail(ops), preloaded)
           c == Head(ops)
       IN CASE c.k = "get" ->
                 [rest EXCEPT !.reads = <<ProxyGet(preloaded, c.r.id)>> \o rest.reads]
            [] c.k = "bump" ->
                 LET found == ProxyGet(preloaded, c.r.id)
                     write == ProxyCall("update", Bump(found, c.r.id))
                 IN [reqs |-> <<ProxyRequest(write)>> \o rest.reqs,
                     reads |-> <<found>> \o rest.reads]
            [] OTHER -> [rest EXCEPT !.reqs = <<ProxyRequest(c)>> \o rest.reqs]

\* RunRequests with add overwriting like put, so that no request fails.
RECURSIVE RunRequestsPut(_, _)
RunRequestsPut(store, rs) ==
  IF rs = <<>> THEN [store |-> store, failed |-> FALSE]
  ELSE LET q == Head(rs)
       IN IF q.k = "delete" THEN RunRequestsPut(StoreDelete(store, q.r.id), Tail(rs))
          ELSE RunRequestsPut(StorePut(store, q.r), Tail(rs))

\* The engine executing the queued requests in order on the store: add fails
\* (ConstraintError) on a key the store holds, and the requests after a
\* failed one are not executed.
RECURSIVE RunRequests(_, _)
RunRequests(store, rs) ==
  IF rs = <<>> THEN [store |-> store, failed |-> FALSE]
  ELSE LET q == Head(rs)
       IN CASE q.k = "add" ->
                 IF StoreGet(store, q.r.id) # {}
                 THEN [store |-> store, failed |-> TRUE]
                 ELSE RunRequests(store \cup {q.r}, Tail(rs))
            [] q.k = "put" -> RunRequests(StorePut(store, q.r), Tail(rs))
            [] OTHER -> RunRequests(StoreDelete(store, q.r.id), Tail(rs))

\* The batch of loadDump: update every record, return nothing.
RECURSIVE UpdateAll(_)
UpdateAll(records) ==
  IF records = <<>> THEN <<>>
  ELSE <<ProxyCall("update", Head(records))>> \o UpdateAll(Tail(records))

LoadDumpBatch(records) == [ops |-> UpdateAll(records), end |-> "return", ret |-> Undefined]

\* records.map(record => record.last_modified)
RECURSIVE LastModifiedOf(_)
LastModifiedOf(records) ==
  IF records = <<>> THEN <<>>
  ELSE <<Head(records).last_modified>> \o LastModifiedOf(Tail(records))

\* saveLastModified: parseInt(lastModified, 10) || null
CoerceLastModified(v) == JsOr(ParseInt(v), Null)

\* getLastModified: request.result && request.result.value || null
ReadLastModified(entry) == JsOr(entry, Null)

\* The batch the executor runs for a call.
BatchOf(c) == IF c.name = "loadDump" THEN LoadDumpBatch(c.records) ELSE c.batch

\* ------------------------------------------------------------------------
\* Actions
\* ------------------------------------------------------------------------

\* this.open(): with a cached handle the returned promise is already
\* resolved; without one an open request is issued.
OpenPc == IF _db # 0 THEN "opened" ELSE "opening"

\* Client p has no operation in flight and may start one.
Ready(p) == pc[p] = "idle" /\ left > 0

\* A client calls a public operation: the code that runs before the call
\* returns, up to this.open().
Begin(p, c) ==
  /\ Ready(p)
  /\ left' = left - 1
  /\ call' = [call EXCEPT ![p] = c]
  /\ method' = [method EXCEPT ![p] = IF c.name = "loadDump" THEN "execute" ELSE c.name]
  /\ val' = [val EXCEPT ![p] = IF c.name = "saveLastModified"
                                 THEN CoerceLastModified(c.arg) ELSE Undefined]
  /\ out' = [out EXCEPT ![p] = Pending]
  /\ pre' = [pre EXCEPT ![p] = [coll |-> coll, meta |-> meta]]
  /\ pc' = [pc EXCEPT ![p] = OpenPc]
  /\ reqs' = [reqs EXCEPT ![p] = <<>>]
  /\ cur' = [cur EXCEPT ![p] = NoCursor]
  /\ reads' = [reads EXCEPT ![p] = <<>>]
  /\ UNCHANGED <<_db, handles, coll, meta, txq>>

CallOpen(p) == Begin(p, [NoCall EXCEPT !.name = "open"])
CallClear(p) == Begin(p, [NoCall EXCEPT !.name = "clear"])
CallGet(p, id) == Begin(p, [NoCall EXCEPT !.name = "get", !.id = id])
CallList(p, filters) == Begin(p, [NoCall EXCEPT !.name = "list", !.filters = filters])
CallExecute(p, batch, preload) ==
  Begin(p, [NoCall EXCEPT !.name = "execute", !.batch = batch, !.preload = preload])
CallSaveLastModified(p, v) == Begin(p, [NoCall EXCEPT !.name = "saveLastModified", !.arg = v])
CallGetLastModified(p) == Begin(p, [NoCall EXCEPT !.name = "getLastModified"])
CallLoadDump(p, records) == Begin(p, [NoCall EXCEPT !.name = "loadDump", !.records = records])

\* close(): closes the cached handle, if any, and forgets it; nothing
\* happens on a closed adapter.
Close ==
  /\ IF _db # 0
     THEN /\ handles' = [handles EXCEPT ![_db] = "closed"]
          /\ _db' = 0
     ELSE UNCHANGED <<_db, handles>>
  /\ UNCHANGED <<coll, meta, txq, pc, call, method, val, reqs, cur, reads, out, pre, left>>

\* The callback chained on open(), run with db as the cached handle: open
\* itself resolves with the adapter; every other method prepares its
\* transaction on the cached handle, which throws when there is none, and
\* issues its first request.
Prepare(p, db) ==
  IF method[p] = "open"
  THEN /\ out' = [out EXCEPT ![p] = Resolved(@, Undefined, <<>>)]
       /\ pc' = [pc EXCEPT ![p] = "idle"]
       /\ UNCHANGED txq
  ELSE IF db = 0
  THEN /\ out' = [out EXCEPT ![p] =
                    Rejected(@, "TypeError", HandleErrorPrefix(call[p].name))]
       /\ pc' = [pc EXCEPT ![p] = "idle"]
       /\ UNCHANGED txq
  ELSE /\ txq' = Append(txq, [p |-> p, store |-> TxStore(method[p]),
                              mode |-> TxMode(method[p])])
       /\ pc' = [pc EXCEPT ![p] = IF method[p] \in {"list", "execute"}
                                  THEN "txwait" ELSE "commit"]
       /\ UNCHANGED out

\* The success event of an open request: a new handle, which open() caches
\* before it resolves; the callback chained on open() runs as the event
\* handler returns, before any other code.
OpenSuccess(p) ==
  /\ pc[p] = "opening"
  /\ handles' = Append(handles, "open")
  /\ _db' = Len(handles) + 1
  /\ Prepare(p, Len(handles) + 1)
  /\ UNCHANGED <<coll, meta, call, method, val, reqs, cur, reads, pre, left>>

\* The callback chained on open() when open() found a cached handle: it
\* runs once the code that called the operation has returned, with the
\* handle cached by then.
Then(p) ==
  /\ pc[p] = "opened"
  /\ Prepare(p, _db)
  /\ UNCHANGED <<_db, handles, coll, meta, call, method, val, reqs, cur, reads, pre, left>>

\* TransactionAbort left out: the transaction stays live.
TransactionAbortMissing(q, p) == q

\* transaction.abort(): the transaction is over, nothing of it is committed.
TransactionAbort(q, p) == Without(q, p)

\* AfterCallback with the promise resolved by the callback itself, without
\* waiting for the complete event.
AfterCallbackResolves(o, batch) ==
  CASE batch.end = "throw" -> Rejected(Rejected(o, "thrown", ""), "AbortError", "")
    [] batch.end = "promise" -> Rejected(o, "InvalidUsage", "")
    [] OTHER -> Resolved(o, batch.ret, <<>>)

\* AfterCallback without the test for a returned Promise.
AfterCallbackNoCheck(o, batch) ==
  CASE batch.end = "throw" -> Rejected(Rejected(o, "thrown", ""), "AbortError", "")
    [] OTHER -> o

\* What the done callback of execute does to the promise once the batch
\* ended: a throw rejects with the thrown value (and the error events of
\* the aborted requests reject again), a returned Promise rejects.
AfterCallback(o, batch) ==
  CASE batch.end = "throw" -> Rejected(Rejected(o, "thrown", ""), "AbortError", "")
    [] batch.end = "promise" -> Rejected(o, "InvalidUsage", "")
    [] OTHER -> o

\* The done callback of execute's preload cursor: the batch runs on the
\* proxy and queues its requests; a throw aborts the transaction; result
\* holds what the batch returned. A transaction still live goes on to
\* execute the queued requests.
ExecuteDone(p, c) ==
  LET batch == BatchOf(call[p])
      run == RunBatch(batch.ops, c.results)
      q == IF batch.end = "throw" THEN TransactionAbort(txq, p) ELSE txq
  IN /\ cur' = [cur EXCEPT ![p] = c]
     /\ reads' = [reads EXCEPT ![p] = run.reads]
     /\ reqs' = [reqs EXCEPT ![p] = run.reqs]
     /\ txq' = q
     /\ val' = [val EXCEPT ![p] = CASE batch.end = "return" -> batch.ret
                                    [] batch.end = "promise" -> PromiseVal
                                    [] OTHER -> Undefined]
     /\ out' = [out EXCEPT ![p] = AfterCallback(@, batch)]
     /\ pc' = [pc EXCEPT ![p] = IF \E k \in 1..Len(q) : q[k].p = p
                                THEN "commit" ELSE "idle"]

\* One success event of the cursor request of list or of execute's preload,
\* once the engine runs the transaction. An exception out of the handler
\* aborts the transaction and leaves the promise pending.
CursorEvent(p) ==
  /\ pc[p] \in {"txwait", "cursor"}
  /\ Runnable(p)
  /\ LET c0 == IF pc[p] = "cursor" THEN cur[p]
               ELSE IF method[p] = "list" THEN createListRequest(coll, call[p].filters)
               ELSE NewCursor(IndexCursor(coll, "id"))
         c1 == IF method[p] = "list" THEN ListHandler(c0, call[p].filters)
               ELSE InHandler(c0, "id", JsSort(call[p].preload))
     IN IF c1.threw
        THEN /\ txq' = Without(txq, p)
             /\ pc' = [pc EXCEPT ![p] = "idle"]
             /\ cur' = [cur EXCEPT ![p] = c1]
             /\ UNCHANGED <<val, reqs, reads, out>>
        ELSE IF ~c1.done
        THEN /\ cur' = [cur EXCEPT ![p] = c1]
             /\ pc' = [pc EXCEPT ![p] = "cursor"]
             /\ UNCHANGED <<txq, val, reqs, reads, out>>
        ELSE IF method[p] = "list"
        THEN /\ cur' = [cur EXCEPT ![p] = c1]
             /\ pc' = [pc EXCEPT ![p] = "commit"]
             /\ UNCHANGED <<txq, val, reqs, reads, out>>
        ELSE ExecuteDone(p, c1)
  /\ UNCHANGED <<_db, handles, coll, meta, call, method, pre, left>>

\* LoadDumpSaves without the comparison.
LoadDumpSavesAlways(records, previousLastModified) == TRUE

\* loadDump: whether the maximum last_modified of the records is saved over
\* the previous value (lastModified > previousLastModified).
LoadDumpSaves(records, previousLastModified) ==
  JsGreater(MathMax(LastModifiedOf(records)), previousLastModified)

\* The promise chain of loadDump after one of its methods resolved with v:
\* execute, then getLastModified, then saveLastModified when the records are
\* newer; it resolves with the records.
LoadDumpThen(p, v) ==
  CASE method[p] = "execute" ->
         /\ method' = [method EXCEPT ![p] = "getLastModified"]
         /\ pc' = [pc EXCEPT ![p] = OpenPc]
         /\ UNCHANGED <<val, out>>
    [] method[p] = "getLastModified" /\ LoadDumpSaves(call[p].records, v) ->
         /\ method' = [method EXCEPT ![p] = "saveLastModified"]
         /\ val' = [val EXCEPT ![p] =
                      CoerceLastModified(MathMax(LastModifiedOf(call[p].records)))]
         /\ pc' = [pc EXCEPT ![p] = OpenPc]
         /\ UNCHANGED out
    [] OTHER ->
         /\ out' = [out EXCEPT ![p] = Resolved(@, Undefined, call[p].records)]
         /\ pc' = [pc EXCEPT ![p] = "idle"]
         /\ UNCHANGED <<method, val>>

\* The engine executes the requests of a transaction and commits it, and the
\* complete event resolves the method's promise; a failed request fires an
\* error event instead, which rejects, and the transaction is aborted.
Complete(p) ==
  /\ pc[p] = "commit"
  /\ Runnable(p)
  /\ txq' = Without(txq, p)
  /\ LET m == method[p]
         run == RunRequests(coll, reqs[p])
         failed == m = "execute" /\ run.failed
         v == CASE m = "saveLastModified" -> val[p]
                [] m = "getLastModified" -> ReadLastModified(meta)
                [] m = "execute" -> val[p]
                [] OTHER -> Undefined
         recs == CASE m = "get" -> AsSeq(StoreGet(coll, call[p].id))
                   [] m = "list" ->
                        reduceRecords(RemoveFilter(call[p].filters,
                                                   findIndexedField(call[p].filters)),
                                      cur[p].results)
                   [] OTHER -> <<>>
     IN /\ coll' = CASE m = "clear" -> StoreClear(coll)
                     [] m = "execute" /\ ~run.failed -> run.store
                     [] OTHER -> coll
        /\ meta' = IF m = "saveLastModified" THEN val[p] ELSE meta
        /\ IF failed
           THEN /\ out' = [out EXCEPT ![p] =
                             Rejected(@, "ConstraintError", HandleErrorPrefix(call[p].name))]
                /\ pc' = [pc EXCEPT ![p] = "idle"]
                /\ UNCHANGED <<method, val>>
           ELSE IF call[p].name = "loadDump" THEN LoadDumpThen(p, v)
           ELSE /\ out' = [out EXCEPT ![p] = Resolved(@, v, recs)]
                /\ pc' = [pc EXCEPT ![p] = "idle"]
                /\ UNCHANGED <<method, val>>
  /\ UNCHANGED <<_db, handles, call, reqs, cur, reads, pre, left>>

\* An error the engine reports while it executes a transaction (a write that
\* fails, a full disk): the transaction's error event rejects the promise of
\* the method, through _handleError where the method chains it, and nothing
\* of the transaction is committed.
TransactionError(p) ==
  /\ pc[p] = "commit"
  /\ Runnable(p)
  /\ txq' = Without(txq, p)
  /\ out' = [out EXCEPT ![p] = Rejected(@, "EngineError", HandleErrorPrefix(call[p].name))]
  /\ pc' = [pc EXCEPT ![p] = "idle"]
  /\ UNCHANGED <<_db, handles, coll, meta, call, method, val, reqs, cur, reads, pre, left>>

\* ------------------------------------------------------------------------
\* Inputs
\* ------------------------------------------------------------------------

\* Longest batch of proxy calls.
MaxBatch == 2

\* The ids records are stored under, and an id no record has.
StoredIds == {Id1, Id10, Id2}
AllIds == StoredIds \cup {Id9}

Statuses == {Created, Synced}

\* last_modified timestamps: 2 and 10.
Timestamps == {Num(2), Num(10)}

Records ==
  {Rec(id, st, lm) : id \in StoredIds, st \in Statuses, lm \in Timestamps \cup {Undefined}}

\* Every store content made of records of R, at most one per id.
RECURSIVE StoresOver(_, _)
StoresOver(ids, R) ==
  IF ids = {} THEN {{}}
  ELSE LET id == CHOOSE x \in ids : TRUE
           rest == StoresOver(ids \ {id}, R)
       IN rest \cup {S \cup {r} : S \in rest, r \in {q \in R : q.id = id}}

\* The sequences of at most n elements of S.
RECURSIVE SeqsUpTo(_, _)
SeqsUpTo(S, n) ==
  IF n = 0 THEN {<<>>}
  ELSE LET shorter == SeqsUpTo(S, n - 1)
       IN shorter \cup {Append(s, x) : s \in {t \in shorter : Len(t) = n - 1}, x \in S}

\* The state of an adapter with no operation in flight on a database that
\* holds c and m, with the handles h it opened so far, the last one cached.
InitState(c, m, n, h) ==
  /\ _db = Len(h)
  /\ handles = h
  /\ coll = c
  /\ meta = m
  /\ txq = <<>>
  /\ pc = [p \in Procs |-> "idle"]
  /\ call = [p \in Procs |-> NoCall]
  /\ method = [p \in Procs |-> "none"]
  /\ val = [p \in Procs |-> Undefined]
  /\ reqs = [p \in Procs |-> <<>>]
  /\ cur = [p \in Procs |-> NoCursor]
  /\ reads = [p \in Procs |-> <<>>]
  /\ out = [p \in Procs |-> NoPromise]
  /\ pre = [p \in Procs |-> [coll |-> c, meta |-> m]]
  /\ left = n

\* The state of a new adapter on a database that holds c and m.
InitWith(c, m, n) == InitState(c, m, n, <<>>)

\* A new adapter, or one on which open() has resolved.
Adapters == {<<>>, <<"open">>}

\* The steps of the engine and of the promise callbacks for client p.
Engine(p) ==
  \/ OpenSuccess(p)
  \/ Then(p)
  \/ CursorEvent(p)
  \/ Complete(p)

\* ------------------------------------------------------------------------
\* The query engine: one client lists a collection
\* ------------------------------------------------------------------------

\* The values a filter on a field may hold.
FilterValues(f) ==
  CASE f = "id" -> AllIds
    [] f = "_status" -> Statuses
    [] f = "last_modified" -> Timestamps
    [] OTHER -> {Str(<<102, 111, 111>>)}

\* The fields of a filter set of several fields ("title" is not indexed),
\* and the value each is filtered by.
FilterFields == {"id", "_status", "last_modified", "title"}

PairValue(f) ==
  CASE f = "id" -> Id1
    [] f = "_status" -> Synced
    [] f = "last_modified" -> Num(2)
    [] OTHER -> Str(<<102, 111, 111>>)

\* The filter sets of two different fields, in either order of their keys.
FilterPairs ==
  {fs \in {<<Filter(f, PairValue(f)), Filter(g, PairValue(g))>> :
             f \in FilterFields, g \in FilterFields} : fs[1].field # fs[2].field}

ListFilters ==
  {<<>>}
  \cup {<<Filter(f, v)>> : f \in {"id"}, v \in FilterValues("id")}
  \cup {<<Filter(f, v)>> : f \in {"_status"}, v \in FilterValues("_status")}
  \cup {<<Filter(f, v)>> : f \in {"last_modified"}, v \in FilterValues("last_modified")}
  \cup {<<FilterIn("id", vs)>> : vs \in SeqsUpTo(AllIds, MaxVals)}
  \cup {<<FilterIn("last_modified", vs)>> : vs \in SeqsUpTo(Timestamps, MaxVals)}
  \cup {<<Filter(f, v)>> : f \in {"title"}, v \in FilterValues("title")}
  \cup FilterPairs

InitQuery ==
  \E c \in StoresOver(StoredIds, Records), h \in Adapters : InitState(c, Undefined, 1, h)

NextQuery ==
  \/ Ready(1) /\ \E filters \in ListFilters : CallList(1, filters)
  \/ Ready(1) /\ \E preload \in SeqsUpTo(AllIds, MaxVals) : CallExecute(1, NoBatch, preload)
  \/ Engine(1)

SpecQuery == InitQuery /\ [][NextQuery]_vars

\* ------------------------------------------------------------------------
\* The transaction executor: one client executes a batch
\* ------------------------------------------------------------------------

\* The arguments of the proxy's delete and get: an id alone.
IdOnly(id) == Rec(id, Undefined, Undefined)

\* The records a batch creates or updates, and those a store holds before.
NewRecord(id) == Rec(id, Created, Undefined)
OldRecords == {Rec(id, Synced, Num(2)) : id \in StoredIds}

ProxyCalls ==
  {ProxyCall("create", NewRecord(id)) : id \in {Id1, Id10}}
  \cup {ProxyCall("update", NewRecord(id)) : id \in {Id10, Id2}}
  \cup {ProxyCall("delete", IdOnly(id)) : id \in {Id10, Id2}}
  \cup {ProxyCall("get", IdOnly(id)) : id \in {Id10, Id2}}

\* The value the batches return: "foo".
Foo == Str(<<102, 111, 111>>)

Batches ==
  {[ops |-> ops, end |-> e, ret |-> IF e = "return" THEN Foo ELSE Undefined] :
     ops \in SeqsUpTo(ProxyCalls, MaxBatch), e \in {"return", "throw", "promise"}}

PreloadLists == SeqsUpTo({Id10, Id2, Id9}, MaxVals)

InitExec ==
  \E c \in StoresOver(StoredIds, OldRecords), h \in Adapters : InitState(c, Undefined, 1, h)

NextExec ==
  \/ Ready(1) /\ \E batch \in Batches, preload \in PreloadLists :
                   CallExecute(1, batch, preload)
  \/ Engine(1)

SpecExec == InitExec /\ [][NextExec]_vars

\* ------------------------------------------------------------------------
\* Bookkeeping: one client saves and reads lastModified, loads dumps and
\* clears the collection, one operation after the other
\* ------------------------------------------------------------------------

\* "10", "0" and "x" as strings.
Str10 == Str(<<49, 48>>)
Str0 == Str(<<48>>)
StrX == Str(<<120>>)

SaveInputs == {Num(-1), Num(0), Num(2), Num(10), Str10, Str0, StrX}

DumpRecords ==
  {Rec(Id1, Synced, Undefined), Rec(Id1, Synced, Num(2)), Rec(Id2, Synced, Num(10))}

Dumps == SeqsUpTo(DumpRecords, MaxVals)

\* What the metadata entry may hold when the adapter is created: nothing,
\* or what an earlier saveLastModified stored.
MetaValues == {Undefined, Null, Num(-1), Num(2), Num(10)}

MetaStores == {{}, {Rec(Id1, Synced, Num(2)), Rec(Id10, Created, Undefined)}}

InitMeta == \E c \in MetaStores, m \in MetaValues : InitWith(c, m, MaxOps)

NextMeta ==
  \/ Ready(1) /\ \E v \in SaveInputs : CallSaveLastModified(1, v)
  \/ CallGetLastModified(1)
  \/ Ready(1) /\ \E records \in Dumps : CallLoadDump(1, records)
  \/ CallClear(1)
  \/ Engine(1)

SpecMeta == InitMeta /\ [][NextMeta]_vars

\* ------------------------------------------------------------------------
\* Properties of the query engine (SpecQuery)
\* ------------------------------------------------------------------------

\* Client p's list has resolved.
ListResolved(p) ==
  call[p].name = "list" /\ pc[p] = "idle" /\ out[p].state = "resolved"

\* The records of store S whose id is among the values vs, by ascending id.
RecordsWithIdIn(S, vs) == SortedBy({r \in S : \E k \in 1..Len(vs) : vs[k] = r.id}, "id")

\* C2: an "IN" query over the id index, of list or of execute's preload,
\* yields exactly the stored records whose id is among the values, each
\* once and in the order of the index, however the values are ordered and
\* whether or not they repeat or are stored.
C2_MergeJoin ==
  \A p \in Procs :
    /\ (ListResolved(p) /\ Len(call[p].filters) = 1 /\ call[p].filters[1].arr
        /\ call[p].filters[1].field = "id")
         => out[p].recs = RecordsWithIdIn(pre[p].coll, call[p].filters[1].values)
    /\ (call[p].name = "execute" /\ cur[p].done)
         => cur[p].results = RecordsWithIdIn(pre[p].coll, call[p].preload)

\* C2 witness: a list resolved both records of ids given as "2", "10".
C2_Witness ==
  \E p \in Procs :
    /\ ListResolved(p)
    /\ call[p].filters = <<FilterIn("id", <<Id2, Id10>>)>>
    /\ Len(out[p].recs) = 2

\* The full scan: cursorHandlers.all run to the end over store.openCursor().
RECURSIVE RunAll(_)
RunAll(c) == IF c.done THEN c.results ELSE RunAll(AllHandler(c))

FullScan(store) == RunAll(NewCursor(StoreCursor(store)))

\* C9: with one equality filter on an indexed field, list resolves the set
\* of records that filtering the full scan by that filter keeps, each once.
C9_IndexEqualsScan ==
  \A p \in Procs :
    (ListResolved(p) /\ Len(call[p].filters) = 1 /\ ~call[p].filters[1].arr)
      => /\ Range(out[p].recs)
              = Range(reduceRecords(call[p].filters, FullScan(pre[p].coll)))
         /\ Cardinality(Range(out[p].recs)) = Len(out[p].recs)

\* C9 witness: a list by _status resolved several records sharing the key.
C9_Witness ==
  \E p \in Procs :
    /\ ListResolved(p)
    /\ call[p].filters = <<Filter("_status", Synced)>>
    /\ Len(out[p].recs) = 3
    /\ \E r \in pre[p].coll : r.last_modified = Undefined

\* ------------------------------------------------------------------------
\* Properties of the transaction executor (SpecExec)
\* ------------------------------------------------------------------------

\* Client p called execute, and the batch has run.
Executing(p) == call[p].name = "execute"
BatchRan(p) == Executing(p) /\ cur[p].done

IsGet(c) == c.k = "get"
IsMutation(c) == c.k # "get"

\* What a batch's calls mean for a store: create inserts and fails on an id
\* the store holds, update inserts or replaces, delete removes.
RECURSIVE Applied(_, _)
Applied(store, ops) ==
  IF ops = <<>> THEN [store |-> store, failed |-> FALSE]
  ELSE LET c == Head(ops)
       IN CASE c.k = "create" ->
                 IF \E r \in store : r.id = c.r.id
                 THEN [store |-> store, failed |-> TRUE]
                 ELSE Applied(store \cup {c.r}, Tail(ops))
            [] c.k = "update" ->
                 Applied({r \in store : r.id # c.r.id} \cup {c.r}, Tail(ops))
            [] c.k = "delete" -> Applied({r \in store : r.id # c.r.id}, Tail(ops))
            [] OTHER -> Applied(store, Tail(ops))

\* C1: an execute whose batch throws never changes the collection and never
\* resolves; once the batch has run, the transaction is over and the
\* promise is rejected with the thrown value.
C1_AtomicOnThrow ==
  \A p \in Procs :
    (Executing(p) /\ call[p].batch.end = "throw")
      => /\ coll = pre[p].coll
         /\ out[p].state # "resolved"
         /\ BatchRan(p) => /\ out[p].state = "rejected"
                           /\ out[p].err = "thrown"
                           /\ pc[p] = "idle"
                           /\ TxIndex(p) = 0

\* C1 witness: a batch that created a record and deleted another, then
\* threw, on a store that holds records.
C1_Witness ==
  \E p \in Procs :
    /\ BatchRan(p)
    /\ call[p].batch.end = "throw"
    /\ call[p].batch.ops = <<ProxyCall("create", NewRecord(Id1)),
                             ProxyCall("delete", IdOnly(Id2))>>
    /\ Id2 \in {r.id : r \in coll}
    /\ Id1 \notin {r.id : r \in coll}
    /\ out[p].state = "rejected"

\* C4: execute is resolved only once its transaction has completed, with
\* the value the batch returned and with every mutation of the batch
\* committed; and an execute that is over is resolved exactly when its
\* batch returned a value and no request of it failed.
C4_CommitBeforeResolve ==
  \A p \in Procs :
    Executing(p) =>
      LET batch == call[p].batch
          after == Applied(pre[p].coll, batch.ops)
      IN /\ out[p].state = "resolved"
              => /\ pc[p] = "idle"
                 /\ TxIndex(p) = 0
                 /\ batch.end = "return"
                 /\ out[p].val = batch.ret
                 /\ ~after.failed
                 /\ coll = after.store
         /\ (pc[p] = "idle" /\ batch.end = "return" /\ ~after.failed)
              => out[p].state = "resolved"

\* C4 witness: on an empty store, a batch that created record "1" is
\* resolved and the store holds that record.
C4_Witness ==
  \E p \in Procs :
    /\ Executing(p)
    /\ out[p].state = "resolved"
    /\ pre[p].coll = {}
    /\ call[p].batch.ops = <<ProxyCall("create", NewRecord(Id1))>>
    /\ StoreGet(coll, Id1) = {NewRecord(Id1)}

\* C5: inside a batch, get returns nothing for an id that is not in the
\* preload list and the stored record, if any, for an id that is; the gets
\* queue no request on the store.
C5_PreloadContract ==
  \A p \in Procs :
    BatchRan(p) =>
      LET gets == SelectSeq(call[p].batch.ops, IsGet)
      IN /\ Len(reads[p]) = Len(gets)
         /\ \A k \in 1..Len(gets) :
              reads[p][k] = IF gets[k].r.id \in Range(call[p].preload)
                            THEN StoreGet(pre[p].coll, gets[k].r.id)
                            ELSE {}
         /\ Len(reqs[p]) = Len(SelectSeq(call[p].batch.ops, IsMutation))

\* C5 witness: a batch got nothing for the stored id "2", which was not
\* preloaded, and the stored record of the preloaded id "10".
C5_Witness ==
  \E p \in Procs :
    /\ BatchRan(p)
    /\ call[p].batch.ops = <<ProxyCall("get", IdOnly(Id2)), ProxyCall("get", IdOnly(Id10))>>
    /\ call[p].preload = <<Id9, Id10>>
    /\ StoreGet(pre[p].coll, Id2) # {}
    /\ reads[p] = <<{}, StoreGet(pre[p].coll, Id10)>>
    /\ reads[p][2] # {}

\* C6: an execute whose batch returns a Promise is never resolved, and is
\* rejected with the "should not return a Promise" error from the moment
\* the batch has run.
C6_DeferredRejected ==
  \A p \in Procs :
    (Executing(p) /\ call[p].batch.end = "promise")
      => /\ out[p].state # "resolved"
         /\ BatchRan(p) => (out[p].state = "rejected" /\ out[p].err = "InvalidUsage")

\* C6 witness: the transaction of such a batch has completed, and the
\* promise is still rejected.
C6_Witness ==
  \E p \in Procs :
    /\ BatchRan(p)
    /\ call[p].batch.end = "promise"
    /\ call[p].batch.ops # <<>>
    /\ pc[p] = "idle"
    /\ out[p].state = "rejected"

\* ------------------------------------------------------------------------
\* Properties of the bookkeeping (SpecMeta)
\* ------------------------------------------------------------------------

\* Stored value a is not below stored value b (no value is below none).
NotBelow(a, b) == b.t # "number" \/ (a.t = "number" /\ a.n >= b.n)

\* The largest of a non-empty set of integers.
Largest(S) == CHOOSE n \in S : \A m \in S : n >= m

\* C3: while and after a loadDump that ran alone, the stored lastModified
\* is not below the value stored when it was called; when it has resolved,
\* the stored value is unchanged if there are no records, if a record has
\* no last_modified, or if no last_modified exceeds the stored value, and
\* is the largest last_modified of the records otherwise.
C3_MonotonicSequential ==
  \A p \in Procs :
    call[p].name = "loadDump" =>
      LET before == pre[p].meta
          records == Range(call[p].records)
          unchanged ==
            \/ records = {}
            \/ \E r \in records : r.last_modified = Undefined
            \/ before.t = "number" /\ \A r \in records : r.last_modified.n <= before.n
      IN /\ NotBelow(meta, before)
         /\ (pc[p] = "idle" /\ out[p].state = "resolved")
              => /\ out[p].recs = call[p].records
                 /\ meta = IF unchanged THEN before
                           ELSE Num(Largest({r.last_modified.n : r \in records}))

\* C3 witness: a loadDump of records of 2 and 10 over a stored 2 resolved
\* and left 10.
C3_Witness ==
  \E p \in Procs :
    /\ call[p].name = "loadDump"
    /\ pc[p] = "idle"
    /\ out[p].state = "resolved"
    /\ pre[p].meta = Num(2)
    /\ call[p].records = <<Rec(Id2, Synced, Num(10)), Rec(Id1, Synced, Num(2))>>
    /\ meta = Num(10)

\* C7: once clear has resolved, the full list is empty, no id has a record,
\* and the lastModified entry, hence what getLastModified resolves, is what
\* it was when clear was called.
C7_ClearFrame ==
  \A p \in Procs :
    (call[p].name = "clear" /\ pc[p] = "idle" /\ out[p].state = "resolved")
      => /\ reduceRecords(<<>>, FullScan(coll)) = <<>>
         /\ \A id \in AllIds : StoreGet(coll, id) = {}
         /\ meta = pre[p].meta
         /\ ReadLastModified(meta) = ReadLastModified(pre[p].meta)

\* C7 witness: clear resolved on a store that held records, with a stored
\* lastModified of 10.
C7_Witness ==
  \E p \in Procs :
    /\ call[p].name = "clear"
    /\ pc[p] = "idle"
    /\ out[p].state = "resolved"
    /\ pre[p].coll # {}
    /\ pre[p].meta = Num(10)

\* An input that coerces to an integer: a number, or a string that is an
\* integer literal.
IntegerCoercible(v) == v.t = "number" \/ (v.t = "string" /\ ToNumber(v).t = "number")

\* C8 (as claimed): saveLastModified of an integer-coercible input resolves
\* with its integer value, which getLastModified then reads back; any other
\* input gives null; null is stored for no integer-coercible input.
C8_RoundTrip ==
  \A p \in Procs :
    (call[p].name = "saveLastModified" /\ pc[p] = "idle" /\ out[p].state = "resolved")
      => LET expected == IF IntegerCoercible(call[p].arg)
                         THEN ToNumber(call[p].arg) ELSE Null
         IN /\ out[p].val = expected
            /\ ReadLastModified(meta) = expected
            /\ meta = Null => ~IntegerCoercible(call[p].arg)

\* ------------------------------------------------------------------------
\* The adapter under concurrent clients
\* ------------------------------------------------------------------------

ConcBatches ==
  {[ops |-> <<ProxyCall("create", NewRecord(Id2))>>, end |-> "return", ret |-> Foo],
   [ops |-> <<ProxyCall("update", NewRecord(Id1))>>, end |-> "throw", ret |-> Undefined],
   [ops |-> <<ProxyCall("delete", IdOnly(Id1))>>, end |-> "promise", ret |-> Undefined],
   [ops |-> <<ProxyCall("bump", IdOnly(Id1))>>, end |-> "return", ret |-> Foo]}

ConcDumps == {<<Rec(Id1, Synced, Num(2))>>, <<Rec(Id2, Synced, Num(10))>>}

Init == InitWith({Rec(Id1, Synced, Num(2))}, Undefined, MaxOps)

Next ==
  \/ \E p \in Procs : CallOpen(p)
  \/ Close
  \/ \E p \in Procs : CallClear(p)
  \/ \E p \in Procs : CallGet(p, Id1)
  \/ \E p \in Procs : CallList(p, <<>>)
  \/ \E p \in Procs : Ready(p) /\ \E batch \in ConcBatches : CallExecute(p, batch, <<Id1>>)
  \/ \E p \in Procs : CallSaveLastModified(p, Num(2))
  \/ \E p \in Procs : CallGetLastModified(p)
  \/ \E p \in Procs : Ready(p) /\ \E records \in ConcDumps : CallLoadDump(p, records)
  \/ \E p \in Procs : Engine(p)

Spec == Init /\ [][Next]_vars

\* The handles that are open.
OpenHandles == {h \in 1..Len(handles) : handles[h] = "open"}

\* C10 (as claimed): at most one handle is open at any time, and every open
\* handle is the one the adapter caches.
C10_SingleConnection ==
  /\ Cardinality(OpenHandles) <= 1
  /\ \A h \in OpenHandles : h = _db

\* ------------------------------------------------------------------------
\* Engine errors: one client runs the public operations on an engine that
\* may report an error while it executes a transaction
\* ------------------------------------------------------------------------

ErrBatches ==
  {[ops |-> <<ProxyCall("create", NewRecord(id))>>, end |-> "return", ret |-> Foo] :
     id \in {Id1, Id2}}

InitErr == InitWith({Rec(Id1, Synced, Num(2))}, Num(2), MaxOps)

NextErr ==
  \/ CallClear(1)
  \/ CallGet(1, Id1)
  \/ CallList(1, <<>>)
  \/ Ready(1) /\ \E batch \in ErrBatches : CallExecute(1, batch, <<Id1>>)
  \/ CallSaveLastModified(1, Num(10))
  \/ CallGetLastModified(1)
  \/ Ready(1) /\ \E records \in ConcDumps : CallLoadDump(1, records)
  \/ Engine(1)
  \/ TransactionError(1)

SpecErr == InitErr /\ [][NextErr]_vars

\* The errors that come from the engine.
EngineErrors == {"EngineError", "ConstraintError"}

\* C11 (as claimed): an operation that ended after an error of the engine
\* is rejected, with the name of the operation prefixed to the error.
C11_ErrorsWrapped ==
  \A p \in Procs :
    (pc[p] = "idle" /\ out[p].err \in EngineErrors)
      => /\ out[p].state = "rejected"
         /\ out[p].prefix = call[p].name

\* ------------------------------------------------------------------------
\* The sort of the merge-join (SpecQuery)
\* ------------------------------------------------------------------------

\* Client p's list, with one "IN" filter, has resolved.
InListResolved(p) ==
  ListResolved(p) /\ Len(call[p].filters) = 1 /\ call[p].filters[1].arr

\* A sequence of keys in the ascending order of an index.
AscendingKeys(sv) == \A i, j \in 1..Len(sv) : i < j => ~KeyLess(sv[j], sv[i])

\* C12 (as claimed): the sorted values of an "IN" query are ascending in
\* the order of the index keys, and the list resolves every stored record
\* whose key is among the values.
C12_SortedAsIndex ==
  \A p \in Procs :
    InListResolved(p) =>
      LET fl == call[p].filters[1]
      IN /\ AscendingKeys(JsSort(fl.values))
         /\ \A r \in pre[p].coll :
              FieldOf(r, fl.field) \in Range(fl.values) => r \in Range(out[p].recs)

\* ------------------------------------------------------------------------
\* Properties of the adapter under concurrent clients (Spec)
\* ------------------------------------------------------------------------

\* No operation but loadDump has been called.
OnlyLoadDumps == \A p \in Procs : call[p].name \in {"none", "loadDump"}

\* Every client called loadDump, and every loadDump has resolved.
LoadDumpsResolved ==
  \A p \in Procs :
    call[p].name = "loadDump" /\ pc[p] = "idle" /\ out[p].state = "resolved"

\* The stored lastModified is at least the last_modified of every record
\* the clients loaded.
CoversLoaded ==
  \A p \in Procs : \A r \in Range(call[p].records) :
    r.last_modified.t = "number"
      => (meta.t = "number" /\ meta.n >= r.last_modified.n)

\* C13 (as claimed): while only loadDump calls run, concurrently or not, no
\* step decreases the stored lastModified, and once all of them have
\* resolved it is at least the largest last_modified they loaded.
C13_ConcurrentHighWater ==
  [][OnlyLoadDumps' => /\ NotBelow(meta', meta)
                       /\ LoadDumpsResolved' => CoversLoaded']_vars

\* ------------------------------------------------------------------------
\* Further properties of the transaction executor (SpecExec)
\* ------------------------------------------------------------------------

\* Client p's execute is over and was rejected.
ExecuteRejected(p) == Executing(p) /\ pc[p] = "idle" /\ out[p].state = "rejected"

\* C14 (as claimed): when execute has rejected, by a batch that returned a
\* Promise or for any other reason, the collection is what it was before
\* the call: no mutation of the batch is committed.
C14_RejectedLeavesNothing ==
  \A p \in Procs : ExecuteRejected(p) => coll = pre[p].coll


\* A step in which the callback chained on open() runs for an operation of
\* client p that prepares a transaction.
Prepares(p) ==
  /\ pc[p] \in {"opening", "opened"}
  /\ pc'[p] \notin {"opening", "opened"}
  /\ method[p] # "open"

\* A step of close() on an adapter that caches a handle.
Closes == _db # 0 /\ handles' # handles /\ Len(handles') = Len(handles)

\* C15 (as claimed): whenever an operation prepares its transaction the
\* cached handle is an open one, and close() leaves no handle cached.
C15_NoClosedHandle ==
  [][/\ \A p \in Procs : Prepares(p) => (_db' # 0 /\ handles'[_db'] = "open")
     /\ Closes => _db' = 0]_vars

\* ------------------------------------------------------------------------
\* The choice of the index (SpecQuery)
\* ------------------------------------------------------------------------

\* The first field of the filters, in the order of their keys, that is one
\* of INDEXED_FIELDS; "" when there is none.
FirstInFilterOrder(filters) ==
  LET held == {k \in 1..Len(filters) : filters[k].field \in Range(INDEXED_FIELDS)}
  IN IF held = {} THEN ""
     ELSE filters[CHOOSE k \in held : \A j \in held : k <= j].field

\* The first of INDEXED_FIELDS, in their order, that the filters hold; ""
\* when there is none.
FirstByPriority(filters) ==
  LET fields == {filters[k].field : k \in 1..Len(filters)}
      held == {k \in 1..Len(INDEXED_FIELDS) : INDEXED_FIELDS[k] \in fields}
  IN IF held = {} THEN ""
     ELSE INDEXED_FIELDS[CHOOSE k \in held : \A j \in held : k <= j]

\* The filters other than the one on a field.
OtherFilters(filters, field) ==
  SelectSeq(filters, LAMBDA fl : fl.field # field)

\* What the cursor of a list iterates when it uses the index on a field
\* (the store itself when the field is ""), on store S.
SourceFor(S, filters, field) ==
  IF field = "" THEN SortedBy(S, "id")
  ELSE LET fl == filters[CHOOSE k \in 1..Len(filters) : filters[k].field = field]
       IN IF fl.arr THEN SortedBy({r \in S : ValidKey(FieldOf(r, field))}, field)
          ELSE SortedBy({r \in S : FieldOf(r, field) = fl.value}, field)

\* Client p's list uses the index on the field (a full scan when the field
\* is "") and hands the filters on the other fields to the post-filter.
ListUses(p, field) ==
  /\ pc[p] \in {"cursor", "commit"}
       => cur[p].src = SourceFor(pre[p].coll, call[p].filters, field)
  /\ ListResolved(p)
       => /\ cur[p].src = SourceFor(pre[p].coll, call[p].filters, field)
          /\ out[p].recs = reduceRecords(OtherFilters(call[p].filters, field),
                                         cur[p].results)

\* C16 (amended): the one index list uses is that of the first field, in
\* the order of the filter set's own keys, that is indexed; a full scan is
\* used when no filter field is indexed; exactly the chosen field is left
\* out of the filters handed to the post-filter.
C16_FirstInFilterOrder ==
  \A p \in Procs :
    call[p].name = "list" => ListUses(p, FirstInFilterOrder(call[p].filters))

\* C16 (as claimed): the index used is that of the first of id, _status,
\* last_modified that the filter set holds, whatever the order of its keys.
C16_FirstByPriority ==
  \A p \in Procs :
    call[p].name = "list" => ListUses(p, FirstByPriority(call[p].filters))

\* C16 witness: a list filtered by last_modified, then id, has resolved
\* after iterating the two records of last_modified 2, of which the filter
\* on id kept one.
C16_Witness ==
  \E p \in Procs :
    /\ ListResolved(p)
    /\ call[p].filters = <<Filter("last_modified", Num(2)), Filter("id", Id1)>>
    /\ Len(cur[p].src) = 2
    /\ Len(out[p].recs) = 1


\* C17: an execute whose batch creates a record under an id that the store
\* holds by then, from before the call or by an earlier create or update of
\* the batch, never changes the collection and never resolves; once over
\* it is rejected, with the engine's ConstraintError when the batch ended
\* by returning a value.
C17_DuplicateCreateFails ==
  \A p \in Procs :
    (Executing(p) /\ Applied(pre[p].coll, call[p].batch.ops).failed)
      => /\ coll = pre[p].coll
         /\ out[p].state # "resolved"
         /\ pc[p] = "idle"
              => /\ out[p].state = "rejected"
                 /\ call[p].batch.end = "return" => out[p].err = "ConstraintError"

\* C17 witness: a batch that updated record "2" and then created record
\* "1", on a store holding both, is rejected and both are as before.
C17_Witness ==
  \E p \in Procs :
    /\ Executing(p)
    /\ pc[p] = "idle"
    /\ call[p].batch.ops = <<ProxyCall("update", NewRecord(Id2)),
                             ProxyCall("create", NewRecord(Id1))>>
    /\ call[p].batch.end = "return"
    /\ out[p].err = "ConstraintError"
    /\ StoreGet(coll, Id1) = {Rec(Id1, Synced, Num(2))}
    /\ StoreGet(coll, Id2) = {Rec(Id2, Synced, Num(2))}


\* The get calls of a batch that follow a create, update or delete of it.
GetsAfterMutation(ops) ==
  {k \in 1..Len(ops) : IsGet(ops[k]) /\ \E j \in 1..(k - 1) : IsMutation(ops[j])}

\* The number of get calls among the first k calls of a batch.
GetsUpTo(ops, k) == Len(SelectSeq(SubSeq(ops, 1, k), IsGet))

\* C18: a get of a preloaded id that follows create, update or delete calls
\* in its batch, of that id or another, returns the record stored under the
\* id before the batch started (nothing when none was).
C18_SnapshotPreBatch ==
  \A p \in Procs :
    BatchRan(p) =>
      LET ops == call[p].batch.ops
      IN \A k \in GetsAfterMutation(ops) :
           ops[k].r.id \in Range(call[p].preload)
             => reads[p][GetsUpTo(ops, k)] = StoreGet(pre[p].coll, ops[k].r.id)

\* C18 witness: a batch updated the stored and preloaded record "2" and
\* then got the record stored before, not the one it wrote.
C18_Witness ==
  \E p \in Procs :
    /\ BatchRan(p)
    /\ call[p].batch.ops = <<ProxyCall("update", NewRecord(Id2)),
                             ProxyCall("get", IdOnly(Id2))>>
    /\ Id2 \in Range(call[p].preload)
    /\ reads[p] = <<{Rec(Id2, Synced, Num(2))}>>


\* The batch that reads the record of an id and writes one derived from it.
BumpBatch(id) == [ops |-> <<ProxyCall("bump", IdOnly(id))>>, end |-> "return", ret |-> Foo]

\* Store S after one read-modify-write of the record of an id run alone.
Bumped(S, id) == {r \in S : r.id # id} \cup {Bump({r \in S : r.id = id}, id)}

\* Every client called one operation, execute with the read-modify-write
\* batch on record "1", preloaded, and every one of them has resolved.
BumpsResolved ==
  /\ left = MaxOps - NProc
  /\ \A p \in Procs :
       /\ call[p].name = "execute"
       /\ call[p].batch = BumpBatch(Id1)
       /\ pc[p] = "idle"
       /\ out[p].state = "resolved"

\* A step in which the transaction of client p's read-modify-write commits.
BumpCommits(p) ==
  /\ call[p].name = "execute"
  /\ call[p].batch = BumpBatch(Id1)
  /\ pc[p] = "commit"
  /\ pc'[p] = "idle"

\* C19: from the first event of an execute's preload cursor to the commit
\* of its transaction, the collection changes by that commit alone; the
\* commit of a batch that read record "1" and wrote a record derived from
\* it leaves what the batch gives on the content committed just before;
\* and when every client has run one such execute, concurrently or not,
\* the collection is what running the batches one after the other gives.
C19_Isolation ==
  [][/\ \A p \in Procs :
          (call[p].name = "execute" /\ pc[p] \in {"cursor", "commit"} /\ coll' # coll)
            => (pc[p] = "commit" /\ pc'[p] = "idle")
     /\ \A p \in Procs : BumpCommits(p) => coll' = Bumped(coll, Id1)
     /\ BumpsResolved'
          => \E p \in Procs : coll' = Bumped(Bumped(pre'[p].coll, Id1), Id1)]_vars

\* C19 witness: two such executes, both called before either had written,
\* have resolved, and last_modified went from 2 to 4.
C19_Witness ==
  /\ BumpsResolved
  /\ pre[1].coll = pre[2].coll
  /\ pre[1].coll = {Rec(Id1, Synced, Num(2))}
  /\ coll = {Rec(Id1, Synced, Num(4))}

\* ------------------------------------------------------------------------
\* Progress of the merge-join (SpecQuery)
\* ------------------------------------------------------------------------

\* The field whose index client p's "IN" query iterates ("" when p runs no
\* such query) and the values it looks for.
InField(p) ==
  IF method[p] = "execute" THEN "id"
  ELSE IF method[p] = "list" /\ FirstInFilterOrder(call[p].filters) # ""
          /\ FilterFor(call[p].filters, FirstInFilterOrder(call[p].filters)).arr
       THEN FirstInFilterOrder(call[p].filters)
  ELSE ""

InValues(p) ==
  IF method[p] = "execute" THEN call[p].preload
  ELSE FilterFor(call[p].filters, InField(p)).values

\* A step in which the "IN" handler of client p handles a cursor event.
InEvent(p) ==
  /\ InField(p) # ""
  /\ pc[p] \in {"txwait", "cursor"}
  /\ pc'[p] # pc[p] \/ cur'[p] # cur[p]

\* The cursor was exhausted at the event, or its key is above every value.
ExhaustedOrPassed(p) ==
  \/ cur[p].pos > Len(cur'[p].src)
  \/ /\ InValues(p) # <<>>
     /\ \A k \in 1..Len(InValues(p)) :
          JsGreater(FieldOf(cur'[p].src[cur[p].pos], InField(p)), InValues(p)[k])

\* C20: every cursor event the "IN" handler handles comes before done and
\* either calls done or moves the cursor to a later entry, never seeking
\* to a key that is not above the cursor's; the cursor stays within one
\* past the end of the index; done is called when the cursor is exhausted
\* or every value has been passed, collects nothing, and once it has been
\* called the cursor and the collected records no longer change. The
\* values are of the type of the keys of the index (strings for id,
\* numbers for last_modified), in any order and with repetitions.
C20_MergeJoinProgress ==
  [][\A p \in Procs :
       /\ InEvent(p)
            => /\ ~cur[p].done
               /\ ~cur'[p].threw
               /\ cur'[p].done \/ cur'[p].pos > cur[p].pos
               /\ cur'[p].pos <= Len(cur'[p].src) + 1
               /\ cur'[p].done
                    => /\ ExhaustedOrPassed(p)
                       /\ cur'[p].pos = cur[p].pos
                       /\ pc[p] = "cursor" => cur'[p].results = cur[p].results
       /\ (cur[p].done /\ pc'[p] # "txwait" /\ pc'[p] # "cursor" /\ call'[p] = call[p])
            => cur'[p] = cur[p]]_vars

\* C20 witness: looking for id "2" in a store of ids "1", "10", "2", the
\* handler sought from the first entry to the third, collecting nothing.
C20_Witness ==
  \E p \in Procs :
    /\ call[p].filters = <<FilterIn("id", <<Id2>>)>>
    /\ pc[p] = "cursor"
    /\ Len(cur[p].src) = 3
    /\ cur[p].pos = 3
    /\ cur[p].results = <<>>

====
